---- MODULE Spec2Model ----
(***************************************************************************)
(* sql-anonymizer (src/cli.js, line-based variant, lines 1-420).           *)
(*                                                                         *)
(* Text is modelled as TLA+ strings, character by character: Len, SubSeq   *)
(* and \o are the JavaScript length, substring and concatenation.          *)
(* Positions are 1-based; a JavaScript index k is position k + 1.          *)
(***************************************************************************)
EXTENDS Integers, Sequences, FiniteSets, TLC

(***************************************************************************)
(* Bounds of the model.                                                    *)
(***************************************************************************)
\* number of statements drawn for one generated input file
MaxStatements == 2
\* number of tuples in one generated VALUES list
MaxTuples == 2
\* number of fields in one generated tuple interior
MaxFields == 2

(***************************************************************************)
(* JavaScript string primitives.                                           *)
(***************************************************************************)
\* const v = ...: the value v under the name the body gives it
With(v, Body(_)) == Body(v)

Max(a, b) == IF a >= b THEN a ELSE b

Min(a, b) == IF a <= b THEN a ELSE b

\* the characters at positions a..b; positions outside the string are
\* clamped as String.prototype.substring clamps them
substring(s, a, b) == SubSeq(s, Max(a, 1), Min(b, Len(s)))

\* s[i], the empty string outside the string
CharAt(s, i) == substring(s, i, i)

\* String.prototype.substring(a) with a 1-based
From(s, i) == substring(s, i, Len(s))

\* white space as String.prototype.trim and the regex class \s see it,
\* restricted to the characters that occur in the inputs
WhiteSpace == {" ", "\n", "\r", "\t"}

UpperOf == [c \in {"a", "b", "c", "d", "e", "f", "g", "h", "i", "j", "k", "l", "m",
                   "n", "o", "p", "q", "r", "s", "t", "u", "v", "w", "x", "y", "z"} |->
             CASE c = "a" -> "A" [] c = "b" -> "B" [] c = "c" -> "C" [] c = "d" -> "D"
               [] c = "e" -> "E" [] c = "f" -> "F" [] c = "g" -> "G" [] c = "h" -> "H"
               [] c = "i" -> "I" [] c = "j" -> "J" [] c = "k" -> "K" [] c = "l" -> "L"
               [] c = "m" -> "M" [] c = "n" -> "N" [] c = "o" -> "O" [] c = "p" -> "P"
               [] c = "q" -> "Q" [] c = "r" -> "R" [] c = "s" -> "S" [] c = "t" -> "T"
               [] c = "u" -> "U" [] c = "v" -> "V" [] c = "w" -> "W" [] c = "x" -> "X"
               [] c = "y" -> "Y" [] c = "z" -> "Z"]

UpperChar(c) == IF c \in DOMAIN UpperOf THEN UpperOf[c] ELSE c

RECURSIVE toUpperCase(_)
toUpperCase(s) ==
    IF s = "" THEN "" ELSE UpperChar(CharAt(s, 1)) \o toUpperCase(From(s, 2))

RECURSIVE trimStart(_)
trimStart(s) ==
    IF s # "" /\ CharAt(s, 1) \in WhiteSpace THEN trimStart(From(s, 2)) ELSE s

RECURSIVE trimEnd(_)
trimEnd(s) ==
    IF s # "" /\ CharAt(s, Len(s)) \in WhiteSpace
    THEN trimEnd(substring(s, 1, Len(s) - 1)) ELSE s

trim(s) == trimEnd(trimStart(s))

startsWith(s, p) == Len(s) >= Len(p) /\ substring(s, 1, Len(p)) = p

endsWith(s, p) == Len(s) >= Len(p) /\ substring(s, Len(s) - Len(p) + 1, Len(s)) = p

\* position of the first occurrence of the character c at or after from, 0 if none
RECURSIVE indexOfFrom(_, _, _)
indexOfFrom(s, c, from) ==
    IF from > Len(s) THEN 0
    ELSE IF CharAt(s, from) = c THEN from
    ELSE indexOfFrom(s, c, from + 1)

indexOf(s, c) == indexOfFrom(s, c, 1)

RECURSIVE lastIndexOfUpTo(_, _, _)
lastIndexOfUpTo(s, c, upTo) ==
    IF upTo < 1 THEN 0
    ELSE IF CharAt(s, upTo) = c THEN upTo
    ELSE lastIndexOfUpTo(s, c, upTo - 1)

lastIndexOf(s, c) == lastIndexOfUpTo(s, c, Len(s))

\* String.prototype.split(c): the pieces between the occurrences of c
RECURSIVE split(_, _)
split(s, c) ==
    LET k == indexOf(s, c)
    IN  IF k = 0 THEN <<s>>
        ELSE <<substring(s, 1, k - 1)>> \o split(From(s, k + 1), c)

\* Array.prototype.join(sep)
RECURSIVE join(_, _)
join(xs, sep) ==
    IF Len(xs) = 0 THEN ""
    ELSE IF Len(xs) = 1 THEN xs[1]
    ELSE xs[1] \o sep \o join(Tail(xs), sep)

RECURSIVE Flatten(_)
Flatten(xss) == IF Len(xss) = 0 THEN <<>> ELSE Head(xss) \o Flatten(Tail(xss))

(***************************************************************************)
(* Regular expressions.  A pattern is a tree; Ends(re, s, i) is the list   *)
(* of positions at which a match of re that starts at position i can end,  *)
(* in the order in which a backtracking matcher tries them, so that the    *)
(* head of the list of the whole pattern is the match JavaScript reports.  *)
(***************************************************************************)
Letters == DOMAIN UpperOf \cup {UpperOf[c] : c \in DOMAIN UpperOf}

Digits == {"0", "1", "2", "3", "4", "5", "6", "7", "8", "9"}

\* every character that occurs in an input or in a generated token
Alphabet == Letters \cup Digits \cup WhiteSpace \cup
            {"'", "(", ")", ",", ";", ".", "_", ":", "-"}

\* \w
WordChar == Letters \cup Digits \cup {"_"}

Chr(cs) == [k |-> "chr", cs |-> cs]

\* [^...]
NotChr(cs) == Chr(Alphabet \ cs)

\* one literal character under the i flag
LitI(c) == Chr({d \in Alphabet : UpperChar(d) = UpperChar(c)})

Cat(xs) == [k |-> "cat", xs |-> xs]

Alt(xs) == [k |-> "alt", xs |-> xs]

\* x* (greedy) and x*? (lazy)
Star(x) == [k |-> "star", x |-> x, lazy |-> FALSE]

LazyStar(x) == [k |-> "star", x |-> x, lazy |-> TRUE]

\* x+
Plus(x) == Cat(<<x, Star(x)>>)

\* x?
Opt(x) == Alt(<<x, Cat(<<>>)>>)

\* a literal word under the i flag
WordI(w) == Cat([j \in 1..Len(w) |-> LitI(CharAt(w, j))])

RECURSIVE Ends(_, _, _)
RECURSIVE EndsCat(_, _, _)
RECURSIVE EndsAll(_, _, _)

\* the ends of re started at each position of the list starts, in order
EndsAll(re, s, starts) ==
    IF Len(starts) = 0 THEN <<>>
    ELSE Ends(re, s, Head(starts)) \o EndsAll(re, s, Tail(starts))

EndsCat(xs, s, i) ==
    IF Len(xs) = 0 THEN <<i>>
    ELSE LET firsts == Ends(Head(xs), s, i)
         IN  IF Len(firsts) = 0 THEN <<>>
             ELSE Flatten([j \in 1..Len(firsts) |-> EndsCat(Tail(xs), s, firsts[j])])

Ends(re, s, i) ==
    CASE re.k = "chr" ->
           IF i <= Len(s) /\ CharAt(s, i) \in re.cs THEN <<i + 1>> ELSE <<>>
      [] re.k = "cat" -> EndsCat(re.xs, s, i)
      [] re.k = "alt" -> Flatten([j \in 1..Len(re.xs) |-> Ends(re.xs[j], s, i)])
      [] re.k = "star" ->
           LET once == SelectSeq(Ends(re.x, s, i), LAMBDA e : e > i)
               more == EndsAll(re, s, once)
           IN  IF re.lazy THEN <<i>> \o more ELSE more \o <<i>>

NoMatch == [index |-> 0, lastIndex |-> 0]

\* RegExp.prototype.exec from position from: the leftmost match, as the
\* position of its first character and the position after its last one
RECURSIVE Exec(_, _, _)
Exec(re, s, from) ==
    IF from > Len(s) + 1 THEN NoMatch
    ELSE With(Ends(re, s, from), LAMBDA ends :
              IF Len(ends) > 0 THEN [index |-> from, lastIndex |-> Head(ends)]
              ELSE Exec(re, s, from + 1))

\* String.prototype.search(re) !== -1
Matches(re, s) == Exec(re, s, 1).index # 0

(***************************************************************************)
(* Configuration of one run (the -t and -c arguments) and the state of     *)
(* processFile.                                                            *)
(***************************************************************************)
VARIABLES
    columnIndicesToAnonymize, \* argv.columns after coerce: 0-based, ascending
    entropy,                  \* the stream crypto.randomBytes reads from
    drawn,                    \* number of tokens generated so far
    input,                    \* the bytes of the input file
    twin,                     \* a second input file, for comparing two runs
    unread,                   \* the part of the input readline has not delivered
    currentStatementBuffer,
    lineNumber,
    processedStatements,
    successfullyAnonymizedStatements,
    statementsWithErrors,
    statementsWithSkippedAnonymization,
    literals,                 \* the fields a tuple interior was written from
    interior,                 \* the argument of a call of parseValues
    parsed,                   \* what the calls of parseValues returned so far
    written,                  \* the bytes handed to writer.write, in order
    calls,                    \* history: one record per processStatement call
    closed                    \* the 'close' handler has run and ended the writer

vars == <<columnIndicesToAnonymize, entropy, drawn, input, twin, unread,
          currentStatementBuffer, lineNumber, processedStatements,
          successfullyAnonymizedStatements, statementsWithErrors,
          statementsWithSkippedAnonymization, written, calls, closed,
          literals, interior, parsed>>

\* argv.table
targetTableName == "t"

\* every character of the table name is matched literally
escapedTableName == WordI(targetTableName)

S == Chr(WhiteSpace)

insertRegex ==
    Cat(<<WordI("INSERT"), Plus(S), WordI("INTO"), Plus(S),
          Opt(Cat(<<Plus(Chr(WordChar)), LitI(".")>>)),
          escapedTableName, Star(S),
          Opt(Cat(<<LitI("("), Star(NotChr({")"})), LitI(")"), Star(S)>>)),
          Opt(Cat(<<Alt(<<Cat(<<WordI("OVERRIDING"), Plus(S),
                               Alt(<<WordI("SYSTEM"), WordI("USER")>>),
                               Plus(S), WordI("VALUE")>>),
                         Cat(<<WordI("DEFAULT"), Plus(S), WordI("VALUES")>>),
                         LazyStar(NotChr({";", "(", ")"}))>>),
                    Plus(S)>>)),
          WordI("VALUES"), Star(S), LitI("(")>>)

\* the locator without the white space before the keyword
valuesRegexNoSpace == Cat(<<WordI("VALUES"), Star(S), LitI("(")>>)

\* /\sVALUES\s*\(/i
valuesRegex == Cat(<<S, WordI("VALUES"), Star(S), LitI("(")>>)

\* /\(\s*([^()]*?(?:\([^()]*\)[^()]*?)*?)\s*\)/gs
valueSetRegex ==
    Cat(<<LitI("("), Star(S),
          LazyStar(NotChr({"(", ")"})),
          LazyStar(Cat(<<LitI("("), Star(NotChr({"(", ")"})), LitI(")"),
                         LazyStar(NotChr({"(", ")"}))>>)),
          Star(S), LitI(")")>>)

(***************************************************************************)
(* generateRandomQuotedString                                              *)
(***************************************************************************)
\* the default of the length parameter
TokenLength == 16

HexDigits == "0123456789abcdef"

\* Buffer.prototype.toString('hex')
RECURSIVE toHex(_)
toHex(bytes) ==
    IF Len(bytes) = 0 THEN ""
    ELSE CharAt(HexDigits, (Head(bytes) \div 16) + 1)
         \o CharAt(HexDigits, (Head(bytes) % 16) + 1)
         \o toHex(Tail(bytes))

\* crypto.randomBytes(n) for the k-th token of a run that reads the stream e:
\* the streams differ from one another and the tokens inside one stream too
randomBytes(e, k, n) == [j \in 1..n |-> (e + 37 * k + 11 * j) % 256]

generateRandomQuotedString(e, k) ==
    LET randomHex == substring(toHex(randomBytes(e, k, (TokenLength + 1) \div 2)),
                            1, TokenLength)
    IN  "'" \o randomHex \o "'"

(***************************************************************************)
(* parseValues                                                             *)
(***************************************************************************)
RECURSIVE parseLoop(_, _, _, _, _)
parseLoop(valuesString, i, values, currentVal, inQuotes) ==
    IF i > Len(valuesString)
    THEN IF trim(currentVal) # "" \/ Len(values) > 0 \/ trim(valuesString) = ""
         THEN Append(values, trim(currentVal))
         ELSE values
    ELSE LET char == CharAt(valuesString, i)
         IN  IF char = "'" /\ ~inQuotes
             THEN parseLoop(valuesString, i + 1, values, currentVal \o char, TRUE)
             ELSE IF char = "'" /\ inQuotes
             THEN IF i + 1 <= Len(valuesString) /\ CharAt(valuesString, i + 1) = "'"
                  THEN parseLoop(valuesString, i + 2, values, currentVal \o "''", TRUE)
                  ELSE parseLoop(valuesString, i + 1, values, currentVal \o char, FALSE)
             ELSE IF char = "," /\ ~inQuotes
             THEN parseLoop(valuesString, i + 1, Append(values, trim(currentVal)), "", inQuotes)
             ELSE parseLoop(valuesString, i + 1, values, currentVal \o char, inQuotes)

\* the interior cut at every comma
parseValuesNaive(valuesString) ==
    [p \in 1..Len(split(valuesString, ",")) |-> trim(split(valuesString, ",")[p])]

\* the last field left out when it is empty
parseValuesDropEmptyLast(valuesString) ==
    With(parseLoop(valuesString, 1, <<>>, "", FALSE), LAMBDA values :
        IF values[Len(values)] = "" THEN SubSeq(values, 1, Len(values) - 1) ELSE values)

\* no field at all for a blank interior
parseValuesNoneForBlank(valuesString) ==
    IF trim(valuesString) = "" THEN <<>> ELSE parseLoop(valuesString, 1, <<>>, "", FALSE)

parseValues(valuesString) == parseLoop(valuesString, 1, <<>>, "", FALSE)

(***************************************************************************)
(* processStatement.  A run is the record of the mutable state of          *)
(* processFile; every operator below returns the run it leaves behind.     *)
(***************************************************************************)
\* Math.max(...columnIndicesToAnonymize), -1 for an empty list
RECURSIVE maxIndex(_)
maxIndex(indices) ==
    IF Len(indices) = 0 THEN -1 ELSE Max(Head(indices), maxIndex(Tail(indices)))

\* the bounds check with > written for >=
indicesOutOfBoundsStrict(indices, values) == maxIndex(indices) > Len(values)

\* the row is too narrow for the requested columns
indicesOutOfBounds(indices, values) == maxIndex(indices) >= Len(values)

\* the safety check left out, as in the chunk-based variant
isAnonymizableAlways(originalValue) == TRUE

\* SAFETY CHECK: only a value that looks like a string literal, or NULL
isAnonymizable(originalValue) ==
    startsWith(originalValue, "'") \/ toUpperCase(originalValue) = "NULL"

\* the loop taking the requested indices as 1-based
RECURSIVE anonymizeColumnsOneBased(_, _, _, _)
anonymizeColumnsOneBased(values, indices, e, k) ==
    IF Len(indices) = 0
    THEN [values |-> values, drawn |-> k, valueSetModified |-> FALSE]
    ELSE IF Head(indices) + 1 < Len(values) /\ isAnonymizable(values[Head(indices) + 2])
    THEN [anonymizeColumnsOneBased(
              [values EXCEPT ![Head(indices) + 2] = generateRandomQuotedString(e, k)],
              Tail(indices), e, k + 1)
            EXCEPT !.valueSetModified = TRUE]
    ELSE anonymizeColumnsOneBased(values, Tail(indices), e, k)

\* columnIndicesToAnonymize.forEach(...) over one row; k counts the tokens
\* generated before it
RECURSIVE anonymizeColumns(_, _, _, _)
anonymizeColumns(values, indices, e, k) ==
    IF Len(indices) = 0
    THEN [values |-> values, drawn |-> k, valueSetModified |-> FALSE]
    ELSE LET index == Head(indices)
         IN  IF index < Len(values) /\ isAnonymizable(values[index + 1])
             THEN LET newValue == generateRandomQuotedString(e, k)
                      rest == anonymizeColumns([values EXCEPT ![index + 1] = newValue],
                                               Tail(indices), e, k + 1)
                  IN  [rest EXCEPT !.valueSetModified = TRUE]
             ELSE anonymizeColumns(values, Tail(indices), e, k)

\* the row rebuilt without the blanks
reconstructedValueSetTight(values) == "(" \o join(values, ",") \o ")"

\* the text pushed for a row in which a value was replaced
reconstructedValueSet(values) == "( " \o join(values, ", ") \o " )"

\* the body of the first while loop for one match m of valueSetRegex.
\* Group 1 lies between the \s* after "(" and the \s* before ")", so that
\* valueSetMatch[1].trim() is the trimmed text between the parentheses.
processValueSet(valuesPart, m, indices, e, k) ==
    With(substring(valuesPart, m.index, m.lastIndex - 1), LAMBDA fullMatch :
    With(trim(substring(fullMatch, 2, Len(fullMatch) - 1)), LAMBDA valuesString :
    With(parseValues(valuesString), LAMBDA values :
    With([index |-> m.index, lastIndex |-> m.lastIndex,
          fullMatch |-> fullMatch, values |-> values], LAMBDA base :
        IF indicesOutOfBounds(indices, values)
        THEN base @@ [newValues |-> values, newValueSet |-> fullMatch,
                      valueSetModified |-> FALSE, drawn |-> k]
        ELSE With(anonymizeColumns(values, indices, e, k), LAMBDA a :
                  base @@ [newValues |-> a.values,
                           newValueSet |-> IF a.valueSetModified
                                           THEN reconstructedValueSet(a.values)
                                           ELSE fullMatch,
                           valueSetModified |-> a.valueSetModified,
                           drawn |-> a.drawn])))))

\* while ((valueSetMatch = valueSetRegex.exec(valuesPart)) !== null): the rows
\* of the statement in order, each with the text kept for it in newValueSets
RECURSIVE valueSetLoop(_, _, _, _, _)
valueSetLoop(valuesPart, lastIndex, indices, e, k) ==
    With(Exec(valueSetRegex, valuesPart, lastIndex), LAMBDA m :
        IF m.index = 0 THEN <<>>
        ELSE With(processValueSet(valuesPart, m, indices, e, k), LAMBDA row :
                  <<row>> \o valueSetLoop(valuesPart, m.lastIndex, indices, e, row.drawn)))

\* the second loop without the text between the matches
RECURSIVE reconstructLoopNoGap(_, _, _, _)
reconstructLoopNoGap(valuesPart, lastIndex, newValueSets, matchIndex) ==
    With(Exec(valueSetRegex, valuesPart, lastIndex), LAMBDA m :
        IF m.index = 0 THEN From(valuesPart, lastIndex)
        ELSE newValueSets[matchIndex]
             \o reconstructLoopNoGap(valuesPart, m.lastIndex, newValueSets, matchIndex + 1))

\* the second while loop: the text between the matches is copied and every
\* match is replaced by the entry of newValueSets at its position
RECURSIVE reconstructLoop(_, _, _, _)
reconstructLoop(valuesPart, lastIndex, newValueSets, matchIndex) ==
    With(Exec(valueSetRegex, valuesPart, lastIndex), LAMBDA m :
        IF m.index = 0 THEN From(valuesPart, lastIndex)
        ELSE substring(valuesPart, lastIndex, m.index - 1)
             \o newValueSets[matchIndex]
             \o reconstructLoop(valuesPart, m.lastIndex, newValueSets, matchIndex + 1))

\* the effect of one call on the run: the text written, the counter that
\* is incremented and the tokens consumed
record(run, statement, text, matched, valuesIndex, rows, outcome, drawnAfter) ==
    [run EXCEPT
       !.processedStatements = @ + 1,
       !.written = @ \o text,
       !.drawn = drawnAfter,
       !.successfullyAnonymizedStatements = IF outcome = "anonymized" THEN @ + 1 ELSE @,
       !.statementsWithSkippedAnonymization = IF outcome = "skipped" THEN @ + 1 ELSE @,
       !.statementsWithErrors = IF outcome = "errored" THEN @ + 1 ELSE @,
       !.calls = Append(@, [statement |-> statement, text |-> text,
                            matched |-> matched, valuesIndex |-> valuesIndex,
                            rows |-> rows,
                            outcome |-> outcome])]

\* the else branch writing the statement without the white space around it
passThroughTrimmed(run, statement) ==
    record(run, statement, trim(statement), FALSE, 0, <<>>, "skipped", run.drawn)

\* the else branch without its counter
passThroughUncounted(run, statement) ==
    record(run, statement, statement, FALSE, 0, <<>>, "none", run.drawn)

\* the else branch: not a target INSERT
passThrough(run, statement) ==
    record(run, statement, statement, FALSE, 0, <<>>, "skipped", run.drawn)

\* the branch taken when insertRegex matches.  parseValues and
\* generateRandomQuotedString never throw, so neither catch block runs and
\* statementHadAnonymizationError stays false.
processTarget(run, statement) ==
    With(Exec(valuesRegex, statement, 1), LAMBDA valuesMatch :
        IF valuesMatch.index = 0
        THEN record(run, statement, statement, TRUE, 0, <<>>, "skipped", run.drawn)
        ELSE
    With(valuesMatch.index, LAMBDA valuesIndex :
    With(substring(statement, 1, valuesIndex - 1), LAMBDA prefix :
    With(From(statement, valuesIndex), LAMBDA valuesPart :
    With(valueSetLoop(valuesPart, 1, run.columnIndicesToAnonymize,
                      run.entropy, run.drawn), LAMBDA rows :
    With([j \in 1..Len(rows) |-> rows[j].newValueSet], LAMBDA newValueSets :
    With(\E j \in 1..Len(rows) : rows[j].valueSetModified, LAMBDA overallModified :
    With(IF Len(rows) = 0 THEN run.drawn ELSE rows[Len(rows)].drawn, LAMBDA drawnAfter :
        IF overallModified
        THEN record(run, statement,
                    prefix \o reconstructLoop(valuesPart, 1, newValueSets, 1),
                    TRUE, valuesIndex, rows, "anonymized", drawnAfter)
        ELSE record(run, statement, statement, TRUE, valuesIndex, rows, "skipped",
                    drawnAfter)))))))))

processStatement(run, statement) ==
    IF Matches(insertRegex, statement)
    THEN processTarget(run, statement)
    ELSE passThrough(run, statement)

(***************************************************************************)
(* The stream driver: readline and the 'line' and 'close' handlers.        *)
(***************************************************************************)
\* readline with crlfDelay: Infinity: a line ends at \r\n, \n or \r, the
\* terminator is not part of the line, and the text after the last
\* terminator is a line of its own when it is not empty
RECURSIVE lineEnd(_, _)
lineEnd(text, i) ==
    IF i > Len(text) THEN i
    ELSE IF CharAt(text, i) \in {"\n", "\r"} THEN i
    ELSE lineEnd(text, i + 1)

nextLine(text) ==
    LET i == lineEnd(text, 1)
        skip == IF substring(text, i, i + 1) = "\r\n" THEN 2 ELSE 1
    IN  [line |-> substring(text, 1, i - 1), rest |-> From(text, i + skip)]

\* for (let i = 0; i < parts.length - 1; i++)
RECURSIVE processParts(_, _, _)
processParts(run, parts, i) ==
    IF i > Len(parts) - 1 THEN run
    ELSE With(parts[i] \o ";", LAMBDA part :
              processParts(IF trim(part) # "" THEN processStatement(run, part) ELSE run,
                           parts, i + 1))

\* rl.on('line', ...)
onLine(run, line) ==
    With(run.currentStatementBuffer \o line \o "\n", LAMBDA buffer :
    With([run EXCEPT !.lineNumber = @ + 1, !.currentStatementBuffer = buffer], LAMBDA read :
        IF endsWith(trimEnd(line), ";")
        THEN IF indexOf(line, ";") # lastIndexOf(line, ";")
             THEN [processParts(read, split(buffer, ";"), 1)
                     EXCEPT !.currentStatementBuffer = ""]
             ELSE [processStatement(read, buffer) EXCEPT !.currentStatementBuffer = ""]
        ELSE read))

\* the close handler without the flush of the buffer
onCloseNoFlush(run) == run

\* rl.on('close', ...) up to writer.end
onClose(run) ==
    IF trim(run.currentStatementBuffer) # ""
    THEN processStatement(run, run.currentStatementBuffer)
    ELSE run

\* the state of processFile before the first line
newRun(columns, e) ==
    [columnIndicesToAnonymize |-> columns, entropy |-> e, drawn |-> 0,
     currentStatementBuffer |-> "", lineNumber |-> 0,
     processedStatements |-> 0, successfullyAnonymizedStatements |-> 0,
     statementsWithErrors |-> 0, statementsWithSkippedAnonymization |-> 0,
     written |-> "", calls |-> <<>>]

\* a whole run over the text of a file
RECURSIVE runFile(_, _)
runFile(run, text) ==
    IF text = "" THEN onClose(run)
    ELSE With(nextLine(text), LAMBDA l : runFile(onLine(run, l.line), l.rest))

\* the outputs a file can produce, over the streams of the random source
EntropyStreams == {0, 101}

PossibleOutputs(columns, text) ==
    {runFile(newRun(columns, e), text).written : e \in EntropyStreams}

(***************************************************************************)
(* Input files.                                                            *)
(***************************************************************************)
\* rows of a VALUES list: plain, padded, NULL, bare number, one field only,
\* parenthesis, semicolon, doubled quote and comma inside a literal, a cast
\* after a literal, a function call, a literal that is not closed, a
\* literal after the requested columns
Rows == {"(1,'a')", "( 2 , 'b c' )", "(3, NULL)", "( 4 , 5 )", "('x')",
         "(6,'a(b')", "(7,'a;b')", "(8,'O''Brien, x')", "(9,'a'::b)",
         "(10, f(2))", "(11,'a)", "(12, 'p' ,'q')"}

\* the rows that may follow the first one, the last of them never closed
MoreRows == {"(1,'a')", "('x')", "(2,'b'"}

RECURSIVE RowLists(_)
RowLists(n) ==
    IF n <= 1 THEN Rows
    ELSE RowLists(n - 1) \cup
         {l \o sep \o r : l \in RowLists(n - 1), sep \in {","}, r \in MoreRows}

Heads == {"INSERT INTO t VALUES ", "INSERT INTO o VALUES ",
          "INSERT INTO tt VALUES ", "insert into s.t (a, b)\nvalues ",
          "INSERT INTO t(a)VALUES "}

\* one statement per file, every head with every list of rows
ContentFiles == {h \o l \o ";\n" : h \in Heads, l \in RowLists(MaxTuples)}

\* statements laid out on lines in every way
LayoutStatements == {"INSERT INTO o VALUES (1,'a');", "INSERT INTO t VALUES\n(2,'b');",
                     "DROP TABLE o;", "COMMIT"}

RECURSIVE LayoutFiles(_)
LayoutFiles(n) ==
    IF n = 0 THEN {""}
    ELSE {st \o sep \o rest : st \in LayoutStatements, sep \in {" ", "\n", "\r\n"},
                              rest \in LayoutFiles(n - 1) \ {""}}
         \cup {st \o sep : st \in LayoutStatements, sep \in {"", "\n", "\r\n"}}

Scenarios ==
    {[input |-> f, columns |-> c] : f \in ContentFiles, c \in {<<1>>, <<0, 1>>}}
    \cup {[input |-> f, columns |-> <<1>>] : f \in LayoutFiles(MaxStatements)}

(***************************************************************************)
(* The state machine.                                                      *)
(***************************************************************************)
Run ==
    [columnIndicesToAnonymize |-> columnIndicesToAnonymize, entropy |-> entropy,
     drawn |-> drawn, currentStatementBuffer |-> currentStatementBuffer,
     lineNumber |-> lineNumber, processedStatements |-> processedStatements,
     successfullyAnonymizedStatements |-> successfullyAnonymizedStatements,
     statementsWithErrors |-> statementsWithErrors,
     statementsWithSkippedAnonymization |-> statementsWithSkippedAnonymization,
     written |-> written, calls |-> calls]

Becomes(run) ==
    /\ drawn' = run.drawn
    /\ currentStatementBuffer' = run.currentStatementBuffer
    /\ lineNumber' = run.lineNumber
    /\ processedStatements' = run.processedStatements
    /\ successfullyAnonymizedStatements' = run.successfullyAnonymizedStatements
    /\ statementsWithErrors' = run.statementsWithErrors
    /\ statementsWithSkippedAnonymization' = run.statementsWithSkippedAnonymization
    /\ written' = run.written
    /\ calls' = run.calls
    /\ UNCHANGED <<columnIndicesToAnonymize, entropy, input, twin>>
    /\ UNCHANGED <<literals, interior, parsed>>

Start(file, other, columns, e) ==
    /\ input = file
    /\ twin = other
    /\ unread = file
    /\ closed = FALSE
    /\ columnIndicesToAnonymize = columns
    /\ entropy = e
    /\ drawn = 0
    /\ currentStatementBuffer = ""
    /\ lineNumber = 0
    /\ processedStatements = 0
    /\ successfullyAnonymizedStatements = 0
    /\ statementsWithErrors = 0
    /\ statementsWithSkippedAnonymization = 0
    /\ written = ""
    /\ calls = <<>>
    /\ literals = <<>>
    /\ interior = ""
    /\ parsed = <<>>

Init == \E sc \in Scenarios, e \in EntropyStreams : Start(sc.input, sc.input, sc.columns, e)

\* readline delivers the next line of the file
Line ==
    /\ ~closed
    /\ unread # ""
    /\ \E l \in {nextLine(unread)} :
           /\ unread' = l.rest
           /\ Becomes(onLine(Run, l.line))
    /\ UNCHANGED closed

\* readline reaches the end of the file
Close ==
    /\ ~closed
    /\ unread = ""
    /\ Becomes(onClose(Run))
    /\ closed' = TRUE
    /\ UNCHANGED unread

Next == Line \/ Close

Spec == Init /\ [][Next]_vars

\* two files that differ only in the content of the string literal at the
\* targeted column of a row of the target table
Secrets == {"a", "b", "a,b", "a(b", "a)b", "(a)", "a;b", "a''b"}

SecretFile(secret) == "INSERT INTO t VALUES (1,'" \o secret \o "');\n"

InitTwo ==
    \E a \in Secrets, b \in Secrets, e \in EntropyStreams :
        Start(SecretFile(a), SecretFile(b), <<1>>, e)

SpecTwo == InitTwo /\ [][Next]_vars

(***************************************************************************)
(* parseValues on its own: a tuple interior is written from a list of      *)
(* fields and handed to the function.                                      *)
(***************************************************************************)
\* fields: number, NULL, plain literal, doubled quote, comma in a literal,
\* empty literal, doubled quote first and last, empty field, unterminated
\* literal, literal left open by a doubled quote, bare text with a quote
FieldTexts == {"1", "NULL", "'a'", "'O''Brien'", "'a,b'", "''", "'''a'", "'a'''",
               "'O''Brien, x'", "", "'a", "'a''", "x'y"}

RECURSIVE FieldLists(_)
FieldLists(n) ==
    IF n <= 1 THEN {<<f>> : f \in FieldTexts}
    ELSE FieldLists(n - 1) \cup {Append(fs, f) : fs \in FieldLists(n - 1), f \in FieldTexts}

InitParse ==
    /\ \E fs \in FieldLists(MaxFields), sep \in {",", " , "}, pad \in {"", " "} :
           /\ literals = fs
           /\ interior = pad \o join(fs, sep) \o pad
    /\ parsed = <<>>
    /\ input = ""
    /\ twin = ""
    /\ unread = ""
    /\ closed = TRUE
    /\ columnIndicesToAnonymize = <<>>
    /\ entropy = 0
    /\ drawn = 0
    /\ currentStatementBuffer = ""
    /\ lineNumber = 0
    /\ processedStatements = 0
    /\ successfullyAnonymizedStatements = 0
    /\ statementsWithErrors = 0
    /\ statementsWithSkippedAnonymization = 0
    /\ written = ""
    /\ calls = <<>>

\* const values = parseValues(valuesString)
Parse ==
    /\ Len(parsed) = 0
    /\ parsed' = <<parseValues(interior)>>
    /\ UNCHANGED <<columnIndicesToAnonymize, entropy, drawn, input, twin, unread,
                   currentStatementBuffer, lineNumber, processedStatements,
                   successfullyAnonymizedStatements, statementsWithErrors,
                   statementsWithSkippedAnonymization, written, calls, closed,
                   literals, interior>>

NextParse == Parse

SpecParse == InitParse /\ [][NextParse]_vars

(***************************************************************************)
(* Vocabulary of the properties.                                           *)
(***************************************************************************)
Calls == 1..Len(calls)

\* the positions at which x occurs in s
Occurrences(s, x) == {p \in 1..(Len(s) - Len(x) + 1) : substring(s, p, p + Len(x) - 1) = x}

Contains(s, x) == Occurrences(s, x) # {}

\* a string literal: the text starts and ends with the quote delimiter
IsQuotedString(v) == Len(v) >= 2 /\ startsWith(v, "'") /\ endsWith(v, "'")

IsNull(v) == v \in {"NULL", "null", "Null"}

IsHex(v) == \A p \in 1..Len(v) : CharAt(v, p) \in Digits \cup {"a", "b", "c", "d", "e", "f"}

\* quote + 16 hexadecimal characters + quote
IsToken(v) ==
    Len(v) = TokenLength + 2 /\ IsQuotedString(v) /\ IsHex(substring(v, 2, TokenLength + 1))

\* the 1-based positions of a row that are requested
Targeted(p) == \E j \in 1..Len(columnIndicesToAnonymize) : columnIndicesToAnonymize[j] = p - 1

\* the row has a field for every requested column
WideEnough(values) ==
    \A j \in 1..Len(columnIndicesToAnonymize) : columnIndicesToAnonymize[j] < Len(values)

\* the row has a requested field that the safety check lets through
HasEligible(values) ==
    \E p \in 1..Len(values) : Targeted(p) /\ (startsWith(values[p], "'") \/ IsNull(values[p]))

\* the fields of a row that were replaced, as pairs of old and new text
Replaced(row) ==
    LET ps == {p \in 1..Len(row.values) : row.newValues[p] # row.values[p]}
        RECURSIVE Pairs(_)
        Pairs(p) == IF p > Len(row.values) THEN <<>>
                    ELSE (IF p \in ps THEN <<[old |-> row.values[p], new |-> row.newValues[p]]>>
                          ELSE <<>>) \o Pairs(p + 1)
    IN  Pairs(1)

ReplacedIn(call) == Flatten([j \in 1..Len(call.rows) |-> Replaced(call.rows[j])])

\* the texts obtained from s by replacing, from left to right, one
\* occurrence of the old text of every pair by its new text
RECURSIVE Substitutions(_, _)
Substitutions(s, pairs) ==
    IF Len(pairs) = 0 THEN {s}
    ELSE UNION {{substring(s, 1, p - 1) \o Head(pairs).new \o t :
                   t \in Substitutions(From(s, p + Len(Head(pairs).old)), Tail(pairs))} :
                p \in Occurrences(s, Head(pairs).old)}

\* the statement of a call with every rewritten row put in the canonical
\* layout "( f1, f2 )" of its tokenized fields, nothing else touched
RECURSIVE Canonical(_, _, _)
Canonical(call, text, j) ==
    IF j = 0 THEN text
    ELSE LET row == call.rows[j]
             first == call.valuesIndex + row.index - 1
             after == call.valuesIndex + row.lastIndex - 1
         IN  Canonical(call,
                       IF row.valueSetModified
                       THEN substring(text, 1, first - 1)
                            \o "( " \o join(row.values, ", ") \o " )"
                            \o From(text, after)
                       ELSE text,
                       j - 1)

(***************************************************************************)
(* The claims.                                                             *)
(***************************************************************************)

\* C1: when no statement of the input file matches the target INSERT
\* signature, the bytes written to the output equal the bytes of the input,
\* whatever the layout of the statements on lines.
C1_WholeRunPassthrough ==
    (closed /\ ~Matches(insertRegex, input)) => written = input

C3_NonTargetPassthrough ==
    LET nonTarget == {j \in Calls : ~Matches(insertRegex, calls[j].statement)}
    IN  /\ \A j \in nonTarget : calls[j].text = calls[j].statement
        /\ \A j \in nonTarget : calls[j].outcome = "skipped"
        /\ Cardinality(nonTarget) <= statementsWithSkippedAnonymization
        /\ (nonTarget = Calls) =>
               written = join([j \in Calls |-> calls[j].statement], "")

\* a statement surrounded by white space that is not a target INSERT has
\* been processed
C3_Witness ==
    \E j \in Calls :
        /\ ~Matches(insertRegex, calls[j].statement)
        /\ trim(calls[j].statement) # calls[j].statement
        /\ statementsWithSkippedAnonymization > 0

\* C4: the field values of an INSERT for another table are never changed in
\* the output, also when the statement shares a line with a target INSERT.
C4_OtherTableUntouched ==
    closed =>
        \A l \in RowLists(MaxTuples) :
            LET other == "INSERT INTO o VALUES " \o l \o ";"
            IN  Contains(input, other) => Contains(written, other)

\* C5: a field is replaced only at a targeted index and only if it is a
\* quoted string (its text starts and ends with a quote) or NULL.
C5_SafetyPredicate ==
    \A j \in Calls :
        \A r \in 1..Len(calls[j].rows) :
            LET row == calls[j].rows[r]
            IN  \A p \in 1..Len(row.values) :
                    row.newValues[p] # row.values[p] =>
                        /\ Targeted(p)
                        /\ IsQuotedString(row.values[p]) \/ IsNull(row.values[p])

\* the text between the parentheses of a row, trimmed
Interior(rowText) == trim(substring(rowText, 2, Len(rowText) - 1))

\* C6: a row with fewer fields than the largest requested index needs is
\* emitted verbatim with no field replaced, and the other rows of the same
\* statement are still anonymized.
C6_BoundsMismatch ==
    \A j \in Calls :
        \A r \in 1..Len(calls[j].rows) :
            LET row == calls[j].rows[r]
                fields == parseValues(Interior(row.fullMatch))
            IN  /\ ~WideEnough(fields) =>
                       /\ row.newValueSet = row.fullMatch
                       /\ row.newValues = fields
                       /\ Contains(calls[j].text, row.fullMatch)
                /\ (WideEnough(fields) /\ HasEligible(fields)) =>
                       /\ row.newValueSet # row.fullMatch
                       /\ \E p \in 1..Len(fields) : Targeted(p) /\ IsToken(row.newValues[p])
                       /\ Contains(calls[j].text, row.newValueSet)

\* a statement with a row that is too narrow and a row that was anonymized
\* has been written
C6_Witness ==
    \E j \in Calls :
        \E r1, r2 \in 1..Len(calls[j].rows) :
            /\ ~WideEnough(calls[j].rows[r1].values)
            /\ Len(calls[j].rows[r1].values) > 0
            /\ Contains(calls[j].text, calls[j].rows[r1].fullMatch)
            /\ calls[j].rows[r2].valueSetModified
            /\ calls[j].outcome = "anonymized"

\* the rows of a VALUES list as a scanner that tracks the depth of the
\* parentheses and the quote state finds them: a row opens when the depth
\* goes from 0 to 1 and closes when it returns to 0
RECURSIVE ScanRows(_, _, _, _, _)
ScanRows(text, i, depth, inQuotes, first) ==
    IF i > Len(text) THEN <<>>
    ELSE LET c == CharAt(text, i)
         IN  IF c = "'" THEN ScanRows(text, i + 1, depth, ~inQuotes, first)
             ELSE IF inQuotes THEN ScanRows(text, i + 1, depth, inQuotes, first)
             ELSE IF c = "(" THEN ScanRows(text, i + 1, depth + 1, inQuotes,
                                           IF depth = 0 THEN i ELSE first)
             ELSE IF c = ")" /\ depth = 1
                  THEN <<substring(text, first, i)>> \o ScanRows(text, i + 1, 0, inQuotes, 0)
             ELSE IF c = ")" /\ depth > 1 THEN ScanRows(text, i + 1, depth - 1, inQuotes, first)
             ELSE ScanRows(text, i + 1, depth, inQuotes, first)

\* the rows of the target INSERT of a statement: the VALUES list starts at
\* the parenthesis that ends the match of the signature
RowsOf(statement) ==
    LET m == Exec(insertRegex, statement, 1)
    IN  ScanRows(From(statement, m.lastIndex - 1), 1, 0, FALSE, 0)

\* C7: in a statement that matches the target signature, every row with
\* enough fields has each targeted quoted-string or NULL field replaced by a
\* token of the form quote + 16 hexadecimal characters + quote, so that no
\* such row reaches the output with its original text.
C7_Completeness ==
    \A j \in Calls :
        (Matches(insertRegex, calls[j].statement)
           /\ Exec(valuesRegex, calls[j].statement, 1).index # 0) =>
            /\ \A r \in 1..Len(calls[j].rows) :
                   \A p \in 1..Len(calls[j].rows[r].values) :
                       calls[j].rows[r].newValues[p] # calls[j].rows[r].values[p] =>
                           IsToken(calls[j].rows[r].newValues[p])
            /\ LET found == RowsOf(calls[j].statement)
               IN  \A r \in 1..Len(found) :
                       LET fields == parseValues(Interior(found[r]))
                       IN  (/\ WideEnough(fields)
                            /\ \E p \in 1..Len(fields) :
                                   /\ Targeted(p)
                                   /\ IsQuotedString(fields[p]) \/ IsNull(fields[p]))
                           => ~Contains(calls[j].text, found[r])

\* C8: two inputs that differ only in the content of a string literal at a
\* targeted column of a row of the target table have the same set of possible
\* outputs: what one run writes, a run over the other file can write too.
C8_Noninterference ==
    closed => written \in PossibleOutputs(columnIndicesToAnonymize, twin)

\* the target signature with the table name as a whole token: the name is
\* followed by a character that cannot continue an identifier
ExactTableInsert ==
    Cat(<<WordI("INSERT"), Plus(S), WordI("INTO"), Plus(S),
          Opt(Cat(<<Plus(Chr(WordChar)), LitI(".")>>)),
          escapedTableName, NotChr(WordChar \cup {"."})>>)

\* C9: a statement is classified as a target INSERT only if it inserts into
\* a table whose name is the target name as a whole token.
C9_ExactTableName ==
    \A j \in Calls : calls[j].matched => Matches(ExactTableInsert, calls[j].statement)

\* the quote state at the end of a text that starts outside a literal
RECURSIVE InQuotesAfter(_, _)
InQuotesAfter(text, inQuotes) ==
    IF text = "" THEN inQuotes
    ELSE InQuotesAfter(From(text, 2), IF CharAt(text, 1) = "'" THEN ~inQuotes ELSE inQuotes)

\* C10: a statement is created only at a ";" outside every string literal:
\* in a file whose literals are all closed, every statement handed to
\* processStatement ends outside a literal.
C10_UnquotedTerminator ==
    ~InQuotesAfter(input, FALSE) =>
        \A j \in Calls : ~InQuotesAfter(calls[j].statement, FALSE)

\* C11: a statement that matches the target signature and in which no row
\* can be modified (every row is too narrow, or has only bare literals at
\* the requested columns) is written byte-identical and counted as skipped.
C11_UnmodifiedTargetVerbatim ==
    \A j \in Calls :
        (/\ calls[j].matched
         /\ \A r \in 1..Len(calls[j].rows) :
                LET fields == parseValues(Interior(calls[j].rows[r].fullMatch))
                IN  ~WideEnough(fields) \/ ~HasEligible(fields))
        => /\ calls[j].text = calls[j].statement
           /\ calls[j].outcome = "skipped"
           /\ Contains(written, calls[j].statement)

\* a target INSERT with a padded row whose requested field is a bare
\* literal, after a row that is too narrow, has been written
C11_Witness ==
    \E j \in Calls :
        /\ calls[j].matched
        /\ Len(calls[j].rows) = 2
        /\ calls[j].rows[1].fullMatch = "( 4 , 5 )"
        /\ calls[j].rows[2].fullMatch = "('x')"
        /\ calls[j].text = calls[j].statement
        /\ statementsWithSkippedAnonymization > 0

\* the text from position i on is the rest of a string literal that is
\* closed by the last character: every quote before it is doubled
RECURSIVE ClosesAtEnd(_, _)
ClosesAtEnd(v, i) ==
    IF i > Len(v) THEN FALSE
    ELSE IF CharAt(v, i) # "'" THEN ClosesAtEnd(v, i + 1)
    ELSE IF i = Len(v) THEN TRUE
    ELSE IF CharAt(v, i + 1) = "'" THEN ClosesAtEnd(v, i + 2)
    ELSE FALSE

\* a field as SQL writes it: a string literal with its quotes doubled, or
\* bare text without quote and comma
WellFormedField(v) ==
    IF startsWith(v, "'") THEN ClosesAtEnd(v, 2)
    ELSE ~Contains(v, "'") /\ ~Contains(v, ",")

\* C12: an interior written from well-formed fields, among them literals
\* with doubled quotes and with commas, is tokenized into exactly these
\* fields, each with its text unchanged.
C12_QuoteRoundTrip ==
    (Len(parsed) = 1 /\ \A p \in 1..Len(literals) : WellFormedField(literals[p]))
        => parsed[1] = literals

\* a literal with a doubled quote and a comma has been tokenized next to
\* another field
C12_Witness ==
    /\ Len(literals) = 2
    /\ literals[1] = "'O''Brien, x'"
    /\ literals[2] = "'''a'"
    /\ parsed = <<literals>>


\* C13: a parenthesis inside a string literal is never a tuple boundary:
\* the rows extracted from the VALUES region of a target INSERT are the
\* rows between top-level parentheses that a scanner tracking the quote
\* state finds.
C13_QuoteAwareExtraction ==
    \A j \in Calls :
        (calls[j].matched /\ calls[j].valuesIndex # 0) =>
            [r \in 1..Len(calls[j].rows) |-> calls[j].rows[r].fullMatch]
                = ScanRows(From(calls[j].statement, calls[j].valuesIndex), 1, 0, FALSE, 0)


\* the number of fields of an interior as a scanner counts them that only
\* flips the quote state at every quote: the commas outside quotes, plus one
RECURSIVE ReferenceCount(_, _, _)
ReferenceCount(text, i, inQuotes) ==
    IF i > Len(text) THEN 1
    ELSE IF CharAt(text, i) = "'" THEN ReferenceCount(text, i + 1, ~inQuotes)
    ELSE IF CharAt(text, i) = "," /\ ~inQuotes THEN 1 + ReferenceCount(text, i + 1, inQuotes)
    ELSE ReferenceCount(text, i + 1, inQuotes)

\* C14: parseValues returns as many fields as the reference scanner counts
\* (a trailing comma giving a last, empty field), and the fields joined
\* with ", " are tokenized into as many fields again.
C14_FieldCount ==
    Len(parsed) = 1 =>
        /\ Len(parsed[1]) = ReferenceCount(interior, 1, FALSE)
        /\ Len(parseValues(join(parsed[1], ", "))) = Len(parsed[1])

\* an interior with a comma inside a literal and an empty field after its
\* last comma has been tokenized
C14_Witness ==
    /\ literals = <<"'a,b'", "">>
    /\ Len(parsed) = 1
    /\ parsed[1] = literals


\* C15 as stated: an empty or blank interior is tokenized into no field.
C15_EmptyInteriorNoField ==
    (Len(parsed) = 1 /\ trim(interior) = "") => Len(parsed[1]) = 0

\* C15 amended: an empty or blank interior is tokenized into one field,
\* the empty string.
C15_EmptyInteriorOneEmptyField ==
    (Len(parsed) = 1 /\ trim(interior) = "") => parsed[1] = <<"">>

\* a blank interior has been tokenized
C15_Witness ==
    /\ interior = "  "
    /\ Len(parsed) = 1
    /\ Len(parsed[1]) = 1


\* C16: a row that opens outside every literal and whose interior holds a
\* literal that is never closed is emitted verbatim, none of its fields
\* replaced, and its statement is counted in the error counter.
C16_TokenizeFailure ==
    \A j \in Calls :
        \A r \in 1..Len(calls[j].rows) :
            (/\ ~InQuotesAfter(substring(calls[j].statement, 1,
                                         calls[j].valuesIndex + calls[j].rows[r].index - 2),
                               FALSE)
             /\ InQuotesAfter(Interior(calls[j].rows[r].fullMatch), FALSE)) =>
                /\ calls[j].rows[r].newValueSet = calls[j].rows[r].fullMatch
                /\ calls[j].rows[r].newValues = calls[j].rows[r].values
                /\ calls[j].outcome = "errored"
                /\ statementsWithErrors > 0

\* the depth of the parentheses at the end of a text, counted outside
\* string literals
RECURSIVE DepthAfter(_, _, _)
DepthAfter(text, depth, inQuotes) ==
    IF text = "" THEN depth
    ELSE IF CharAt(text, 1) = "'" THEN DepthAfter(From(text, 2), depth, ~inQuotes)
    ELSE IF inQuotes THEN DepthAfter(From(text, 2), depth, inQuotes)
    ELSE IF CharAt(text, 1) = "(" THEN DepthAfter(From(text, 2), depth + 1, inQuotes)
    ELSE IF CharAt(text, 1) = ")" THEN DepthAfter(From(text, 2), depth - 1, inQuotes)
    ELSE DepthAfter(From(text, 2), depth, inQuotes)

\* C17: a target INSERT whose VALUES region ends inside a row that was
\* opened and never closed is written unmodified, its well-formed rows
\* included, and counted as errored.
C17_UnbalancedRegion ==
    \A j \in Calls :
        (/\ calls[j].matched
         /\ calls[j].valuesIndex # 0
         /\ ~InQuotesAfter(calls[j].statement, FALSE)
         /\ DepthAfter(From(calls[j].statement, calls[j].valuesIndex), 0, FALSE) > 0)
        => /\ calls[j].text = calls[j].statement
           /\ calls[j].outcome = "errored"
           /\ statementsWithErrors > 0


\* C18 as stated: a statement that matches the INSERT signature and in
\* which the VALUES locator finds nothing is written unchanged and counted
\* in the error counter.
C18_MissingValuesErrored ==
    \A j \in Calls :
        (/\ Matches(insertRegex, calls[j].statement)
         /\ Exec(Cat(<<S, WordI("VALUES"), Star(S), LitI("(")>>), calls[j].statement, 1).index = 0)
        => /\ calls[j].text = calls[j].statement
           /\ calls[j].outcome = "errored"
           /\ statementsWithErrors > 0

\* C18 amended: such a statement is written unchanged and counted in the
\* skipped counter; the error counter does not move.
C18_MissingValuesSkipped ==
    \A j \in Calls :
        (/\ Matches(insertRegex, calls[j].statement)
         /\ Exec(Cat(<<S, WordI("VALUES"), Star(S), LitI("(")>>), calls[j].statement, 1).index = 0)
        => /\ calls[j].text = calls[j].statement
           /\ calls[j].outcome = "skipped"
           /\ statementsWithSkippedAnonymization > 0
           /\ statementsWithErrors = 0

\* the statement INSERT INTO t(a)VALUES ... with a row that could have been
\* anonymized has been written
C18_Witness ==
    \E j \in Calls :
        /\ startsWith(calls[j].statement, "INSERT INTO t(a)VALUES (1,'a')")
        /\ calls[j].matched
        /\ calls[j].valuesIndex = 0
        /\ written = calls[j].statement
        /\ statementsWithSkippedAnonymization = 1


\* C19: the text emitted for a row is "(" + its fields joined by ", " +
\* ")" when one of its fields changed, and the matched text of the row,
\* byte-identical, when none changed.
C19_TupleText ==
    \A j \in Calls :
        \A r \in 1..Len(calls[j].rows) :
            calls[j].rows[r].newValueSet =
                IF calls[j].rows[r].newValues # calls[j].rows[r].values
                THEN "(" \o join(calls[j].rows[r].newValues, ", ") \o ")"
                ELSE calls[j].rows[r].fullMatch


\* the statement of a call with the span of every extracted row, from the
\* last to the first, replaced by the text emitted for that row
RECURSIVE Spliced(_, _, _)
Spliced(call, text, r) ==
    IF r = 0 THEN text
    ELSE Spliced(call,
                 substring(text, 1, call.valuesIndex + call.rows[r].index - 2)
                     \o call.rows[r].newValueSet
                     \o From(text, call.valuesIndex + call.rows[r].lastIndex - 1),
                 r - 1)

\* C20: the text written for a modified statement is the statement with
\* the span of the i-th extracted row replaced by the i-th emitted text,
\* for every row, also one kept because of a bounds mismatch; the prefix,
\* the text between rows and the text after the last row are copied.
C20_Reconstruction ==
    \A j \in Calls :
        calls[j].outcome = "anonymized" =>
            /\ calls[j].text = Spliced(calls[j], calls[j].statement, Len(calls[j].rows))
            /\ \A r \in 1..Len(calls[j].rows) :
                   calls[j].rows[r].fullMatch =
                       substring(calls[j].statement,
                                 calls[j].valuesIndex + calls[j].rows[r].index - 1,
                                 calls[j].valuesIndex + calls[j].rows[r].lastIndex - 2)
            /\ Contains(written, calls[j].text)

\* a statement on two lines with a row kept because of a bounds mismatch
\* after a rewritten row has been written
C20_Witness ==
    \E j \in Calls :
        /\ calls[j].outcome = "anonymized"
        /\ startsWith(calls[j].statement, "insert into s.t (a, b)\nvalues ")
        /\ Len(calls[j].rows) = 2
        /\ calls[j].rows[1].valueSetModified
        /\ calls[j].rows[2].fullMatch = "('x')"
        /\ endsWith(calls[j].text, ",('x');\n")
        /\ endsWith(written, calls[j].text)


RECURSIVE Squeeze(_)
Squeeze(s) ==
    IF s = "" THEN ""
    ELSE (IF CharAt(s, 1) \in WhiteSpace THEN "" ELSE CharAt(s, 1)) \o Squeeze(From(s, 2))

\* the output is the per-statement outputs in the order of the calls, and
\* the statements dispatched so far, what is buffered and what is unread
\* are the input in its order, nothing but white space dropped or added
InOrder ==
    /\ written = join([j \in Calls |-> calls[j].text], "")
    /\ Squeeze(join([j \in Calls |-> calls[j].statement], "")
               \o (IF closed THEN "" ELSE currentStatementBuffer)
               \o unread) = Squeeze(input)
    /\ (closed /\ trim(currentStatementBuffer) # "") =>
           /\ Len(calls) > 0
           /\ calls[Len(calls)].statement = currentStatementBuffer

\* a step only appends: the calls made before stay as they were, every new
\* call adds its text once to the end of the output, the writer is ended
\* only when no line is left, and nothing is written after that
AppendsOnly ==
    /\ Len(calls') >= Len(calls)
    /\ SubSeq(calls', 1, Len(calls)) = calls
    /\ written' = written
                  \o join([j \in 1..(Len(calls') - Len(calls)) |->
                             calls'[Len(calls) + j].text], "")
    /\ (closed' /\ ~closed) => unread = ""
    /\ closed => (closed' /\ written' = written /\ calls' = calls)

\* C22: statements are processed one after the other: every statement
\* dispatched to processStatement is written once, before the next one, so
\* that the output is the per-statement outputs in input order, and the
\* writer is ended only after the last statement, also one without ";",
\* has been written.
C22_Sequential == []InOrder /\ [][AppendsOnly]_vars

\* a run over two statements, the last one without ";", has ended with
\* both written
C22_Witness ==
    /\ closed
    /\ Len(calls) = 2
    /\ calls[2].statement = "COMMIT\n"
    /\ endsWith(written, "COMMIT\n")
    /\ written = calls[1].text \o calls[2].text


\* C23: a rewritten row has the fields of the tokenizer in their number
\* and order: every field at a column that was not requested keeps its
\* trimmed text, only fields at requested columns differ, and the text
\* emitted for the row is made of exactly these fields.
C23_FieldsPreserved ==
    \A j \in Calls :
        \A r \in 1..Len(calls[j].rows) :
            LET row == calls[j].rows[r]
                fields == parseValues(Interior(row.fullMatch))
            IN  row.newValueSet # row.fullMatch =>
                    /\ Len(row.newValues) = Len(fields)
                    /\ \A p \in 1..Len(fields) :
                           ~Targeted(p) => row.newValues[p] = trim(fields[p])
                    /\ \E p \in 1..Len(fields) :
                           Targeted(p) /\ row.newValues[p] # fields[p]
                    /\ parseValues(Interior(row.newValueSet)) = row.newValues
                    /\ Contains(calls[j].text, row.newValueSet)

\* a row with a padded literal at the requested column and another
\* literal after it has been rewritten
C23_Witness ==
    \E j \in Calls :
        /\ Len(calls[j].rows) > 0
        /\ calls[j].rows[1].fullMatch = "(12, 'p' ,'q')"
        /\ calls[j].rows[1].newValueSet # calls[j].rows[1].fullMatch
        /\ calls[j].rows[1].newValues[3] = "'q'"
        /\ Contains(written, calls[j].rows[1].newValueSet)

====
